---- MODULE Spec2Model ----
(***************************************************************************)
(* Model of src/src/computation/hf_extension.py: the HessianCallback       *)
(* accumulator, the add_callback wrapper factory and the fisher_matrix     *)
(* driver that patches a pipeline and drives a dataset through it.         *)
(***************************************************************************)
EXTENDS Integers, Sequences, FiniteSets, TLC

VARIABLES pc, run, n, idx, pipe, cbs, result, error, trace

vars == <<pc, run, n, idx, pipe, cbs, result, error, trace>>

(* ------------------------------ bounds -------------------------------- *)

\* fisher_matrix calls made on the one pipeline object
MaxRuns == 2
\* items of a dataset
MaxItems == 3
\* distinct well-behaved model inputs
MaxLogit == 2

(* ----------------- collaborators (not in hf_extension.py) ------------- *)

\* ParameterStructure of the model: flattened size of each trainable parameter
Shapes == <<2, 1>>

RECURSIVE SumSeq(_)
SumSeq(s) == IF s = <<>> THEN 0 ELSE Head(s) + SumSeq(Tail(s))

RECURSIVE Concat(_)
Concat(ts) == IF ts = <<>> THEN <<>> ELSE Head(ts) \o Concat(Tail(ts))

\* ArchitectureTensor.zeros(): the zero FlattenedMatrix of the structure
zeros == [i \in 1..SumSeq(Shapes) |-> 0]

\* ArchitectureTensor.to_tensor(list): flattens one tensor per parameter, in
\* order; a list that does not match the structure raises
to_tensor(sample) ==
    IF /\ Len(sample) = Len(Shapes)
       /\ \A p \in 1..Len(Shapes) : Len(sample[p]) = Shapes[p]
    THEN [exc |-> "none", val |-> Concat(sample)]
    ELSE [exc |-> "ShapeError", val |-> <<>>]

\* What a dataset item may be: a well-behaved input, one on which the
\* curvature formula raises, one for which it returns a misshapen list.
Items ==
    [x : 1..MaxLogit, est : {"ok"}] \cup [x : {1}, est : {"raises", "misshapen"}]

\* hess(model, logits): one curvature tensor per parameter; needs logits that
\* still carry a gradient graph
hess(logits) ==
    IF ~logits.requires_grad THEN [exc |-> "RuntimeError", val |-> <<>>]
    ELSE IF logits.val.est = "raises" THEN [exc |-> "HessError", val |-> <<>>]
    ELSE LET full == [p \in 1..Len(Shapes) |->
                        [j \in 1..Shapes[p] |-> logits.val.x * (p + j - 1)]]
         IN [exc |-> "none",
             val |-> IF logits.val.est = "misshapen"
                     THEN SubSeq(full, 1, Len(full) - 1) ELSE full]

\* The pipeline's own _forward: produces a fresh outputs object whose logits
\* track gradients iff the inference context enables them
Event(op, who, data, w) == [op |-> op, who |-> who, run |-> w.run, item |-> w.item, data |-> data]

NewId(tr) == 1 + Cardinality({i \in DOMAIN tr : tr[i].op = "forward"})

forward(self, args, kwargs, w) ==
    LET out == [id |-> NewId(w.trace),
                logits |-> [val |-> args, requires_grad |-> w.grad],
                other |-> [hidden |-> args.x * 7, self |-> self, kwargs |-> kwargs]]
    IN [w EXCEPT !.obj = out, !.ret = out.id, !.exc = "none",
                 !.trace = Append(@, Event("forward", 0,
                              [self |-> self, args |-> args, kwargs |-> kwargs, out |-> out], w))]

(* --------------------------- HessianCallback -------------------------- *)

\* __init__ (lines 12-16)
HessianCallback_init == [hessian |-> zeros, num_samples |-> 0]

TensorAdd(a, b) == [i \in DOMAIN a |-> a[i] + b[i]]

\* add_sample with "=" for "+=": the running sum is overwritten
add_sample_overwrite(k, sample, w) ==
    LET w1 == [w EXCEPT !.cbs[k].num_samples = @ + 1,
                        !.trace = Append(@, Event("add_sample", k, sample, w))]
        t  == to_tensor(sample)
    IN IF t.exc # "none"
       THEN [w1 EXCEPT !.exc = t.exc,
                       !.trace = Append(@, Event("raise", k, [in |-> "to_tensor", err |-> t.exc], w))]
       ELSE [w1 EXCEPT !.cbs[k].hessian = t.val,
                       !.trace = Append(@, Event("folded", k, t.val, w))]

\* add_sample counting the tensors of the list instead of the sample
add_sample_countlen(k, sample, w) ==
    LET w1 == [w EXCEPT !.cbs[k].num_samples = @ + Len(sample),
                        !.trace = Append(@, Event("add_sample", k, sample, w))]
        t  == to_tensor(sample)
    IN IF t.exc # "none"
       THEN [w1 EXCEPT !.exc = t.exc,
                       !.trace = Append(@, Event("raise", k, [in |-> "to_tensor", err |-> t.exc], w))]
       ELSE [w1 EXCEPT !.cbs[k].hessian = TensorAdd(@, t.val),
                       !.trace = Append(@, Event("folded", k, t.val, w))]

\* add_sample (lines 25-27) on callback k in world w
add_sample(k, sample, w) ==
    LET w1 == [w EXCEPT !.cbs[k].num_samples = @ + 1,
                        !.trace = Append(@, Event("add_sample", k, sample, w))]
        t  == to_tensor(sample)
    IN IF t.exc # "none"
       THEN [w1 EXCEPT !.exc = t.exc,
                       !.trace = Append(@, Event("raise", k, [in |-> "to_tensor", err |-> t.exc], w))]
       ELSE [w1 EXCEPT !.cbs[k].hessian = TensorAdd(@, t.val),
                       !.trace = Append(@, Event("folded", k, t.val, w))]

\* __call__ without its last statement: the logits stay attached
HessianCallback_call_nodetach(k, w) ==
    LET w0 == [w EXCEPT !.trace = Append(@, Event("callback", k, w.obj, w))]
        H  == hess(w.obj.logits)
        w1 == [w0 EXCEPT !.trace = Append(@, Event("hess", k, w.obj.logits, w))]
    IN IF H.exc # "none"
       THEN [w1 EXCEPT !.exc = H.exc,
                       !.trace = Append(@, Event("raise", k, [in |-> "hess", err |-> H.exc], w))]
       ELSE add_sample(k, H.val, w1)

\* __call__ counting the sample before the estimator has run
HessianCallback_call_countfirst(k, w) ==
    LET w0 == [w EXCEPT !.trace = Append(@, Event("callback", k, w.obj, w)),
                        !.cbs[k].num_samples = @ + 1]
        H  == hess(w.obj.logits)
        w1 == [w0 EXCEPT !.trace = Append(@, Event("hess", k, w.obj.logits, w))]
    IN IF H.exc # "none"
       THEN [w1 EXCEPT !.exc = H.exc,
                       !.trace = Append(@, Event("raise", k, [in |-> "hess", err |-> H.exc], w))]
       ELSE LET t  == to_tensor(H.val)
                w2 == [w1 EXCEPT !.trace = Append(@, Event("add_sample", k, H.val, w))]
            IN IF t.exc # "none"
               THEN [w2 EXCEPT !.exc = t.exc,
                               !.trace = Append(@, Event("raise", k,
                                           [in |-> "to_tensor", err |-> t.exc], w))]
               ELSE [w2 EXCEPT !.cbs[k].hessian = TensorAdd(@, t.val),
                               !.obj.logits.requires_grad = FALSE,
                               !.trace = @ \o <<Event("folded", k, t.val, w),
                                                Event("detach", k, w.obj.id, w)>>]

\* __call__ (lines 18-23): estimate, fold, detach the logits of the outputs
HessianCallback_call(k, w) ==
    LET w0 == [w EXCEPT !.trace = Append(@, Event("callback", k, w.obj, w))]
        H  == hess(w.obj.logits)
        w1 == [w0 EXCEPT !.trace = Append(@, Event("hess", k, w.obj.logits, w))]
    IN IF H.exc # "none"
       THEN [w1 EXCEPT !.exc = H.exc,
                       !.trace = Append(@, Event("raise", k, [in |-> "hess", err |-> H.exc], w))]
       ELSE LET w2 == add_sample(k, H.val, w1)
            IN IF w2.exc # "none" THEN w2
               ELSE [w2 EXCEPT !.obj.logits.requires_grad = FALSE,
                               !.trace = Append(@, Event("detach", k, w.obj.id, w))]

\* Division of a tensor element by a Python int, as torch divides: the
\* quotient as a reduced fraction <<num, den>>; a zero divisor gives nan
\* (<<0, 0>>) or a signed infinity (<<+-1, 0>>) and does not raise
RECURSIVE GCD(_, _)
GCD(a, b) == IF b = 0 THEN a ELSE GCD(b, a % b)

Abs(x) == IF x < 0 THEN -x ELSE x

Sign(x) == IF x > 0 THEN 1 ELSE IF x < 0 THEN -1 ELSE 0

TensorDiv(t, d) ==
    [i \in DOMAIN t |->
        IF d = 0 THEN <<Sign(t[i]), 0>>
        ELSE IF t[i] = 0 THEN <<0, 1>>
        ELSE LET g == GCD(Abs(t[i]), d) IN <<t[i] \div g, d \div g>>]

\* get_hessian (lines 29-31)
get_hessian(cb) == TensorDiv(cb.hessian, cb.num_samples)

(* ------------------------------ add_callback -------------------------- *)

\* Callables: the pipeline's plain function "forward", a closure new_func
\* capturing (func, callback), and a bound method (func, self).
ForwardFunction == [kind |-> "function", name |-> "forward"]

MethodType(f, obj) == [kind |-> "method", func |-> f, self |-> obj]

\* add_callback (lines 34-47): returns the closure, touching nothing
add_callback(func, callback) ==
    [kind |-> "function", name |-> "new_func", func |-> func, callback |-> callback]

RECURSIVE Invoke(_, _, _, _, _)

\* new_func without the call of the callback
new_func_nocallback(f, self, args, kwargs, w) ==
    LET w0 == [w EXCEPT !.trace = Append(@, Event("call", f.callback,
                            [self |-> self, args |-> args, kwargs |-> kwargs], w))]
    IN IF f.func.kind # "method"
       THEN [w0 EXCEPT !.exc = "AttributeError",
                       !.trace = Append(@, Event("raise", f.callback,
                                   [in |-> "new_func", err |-> "AttributeError"], w))]
       ELSE LET r == Invoke(f.func.func, self, args, kwargs, w0)
            IN IF r.exc # "none" THEN r
               ELSE [r EXCEPT !.trace = Append(@, Event("return", f.callback,
                                           [ret |-> r.ret, out |-> r.obj], w))]

\* new_func (lines 43-46): func.__func__(self, *args, **kwargs), then the
\* callback on the outputs, then the same outputs back
new_func(f, self, args, kwargs, w) ==
    LET w0 == [w EXCEPT !.trace = Append(@, Event("call", f.callback,
                            [self |-> self, args |-> args, kwargs |-> kwargs], w))]
    IN IF f.func.kind # "method"
       THEN [w0 EXCEPT !.exc = "AttributeError",
                       !.trace = Append(@, Event("raise", f.callback,
                                   [in |-> "new_func", err |-> "AttributeError"], w))]
       ELSE LET r == Invoke(f.func.func, self, args, kwargs, w0)
            IN IF r.exc # "none" THEN r
               ELSE LET c == HessianCallback_call(f.callback, r)
                    IN IF c.exc # "none" THEN c
                       ELSE [c EXCEPT !.ret = r.ret,
                                      !.trace = Append(@, Event("return", f.callback,
                                                  [ret |-> r.ret, out |-> c.obj], w))]

\* A call f(self, *args, **kwargs) of a plain function or closure
Invoke(f, self, args, kwargs, w) ==
    IF f.name = "forward" THEN forward(self, args, kwargs, w)
    ELSE new_func(f, self, args, kwargs, w)

\* A call m(*args, **kwargs) of a bound method
CallMethod(m, args, kwargs, w) == Invoke(m.func, m.self, args, kwargs, w)

NoKwargs == <<>>

World(item) ==
    [cbs |-> cbs, trace |-> trace, grad |-> (pipe.get_inference_context = "enable_grad"),
     obj |-> [id |-> 0], ret |-> 0, exc |-> "none", run |-> run, item |-> item]

(* ------------------------------ fisher_matrix ------------------------- *)

Init ==
    /\ pc = "idle"
    /\ run = 0
    /\ n = 0
    /\ idx = 0
    /\ pipe = [get_inference_context |-> "no_grad",
               forward |-> MethodType(ForwardFunction, "pipe")]
    /\ cbs = <<>>
    /\ result = "none"
    /\ error = "none"
    /\ trace = <<>>

\* lines 58-63, and the call pipe(dataset, batch_size=1) of line 65 that
\* creates the lazy iterator over a dataset of len items
FisherMatrixBegin(len) ==
    /\ pc \in {"idle", "returned", "raised"}
    /\ run < MaxRuns
    /\ cbs' = Append(cbs, HessianCallback_init)
    /\ pipe' = [get_inference_context |-> "enable_grad",
                forward |-> MethodType(add_callback(pipe.forward, Len(cbs) + 1), "pipe")]
    /\ run' = run + 1
    /\ n' = len
    /\ idx' = 0
    /\ result' = "none"
    /\ error' = "none"
    /\ pc' = "driving"
    /\ UNCHANGED trace

\* line 65, one step of list(...): the pipeline forwards the next item alone
\* (batch_size=1) through pipe._forward; an exception leaves fisher_matrix
PipeForward(item) ==
    /\ pc = "driving"
    /\ idx < n
    /\ LET r == CallMethod(pipe.forward, item, NoKwargs, World(idx + 1))
       IN /\ cbs' = r.cbs
          /\ trace' = r.trace
          /\ idx' = idx + 1
          /\ error' = r.exc
          /\ pc' = IF r.exc = "none" THEN "driving" ELSE "raised"
    /\ UNCHANGED <<run, n, pipe, result>>

\* lines 65-68: the iterator is exhausted, get_hessian, return
FisherMatrixReturn ==
    /\ pc = "driving"
    /\ idx = n
    /\ result' = get_hessian(cbs[run])
    /\ pc' = "returned"
    /\ UNCHANGED <<run, n, idx, pipe, cbs, error, trace>>

Next ==
    \/ \E len \in 0..MaxItems : FisherMatrixBegin(len)
    \/ \E item \in Items : PipeForward(item)
    \/ FisherMatrixReturn

Spec == Init /\ [][Next]_vars

(* ------------- a caller wrapping a procedure of its own --------------- *)

\* A caller of add_callback other than fisher_matrix: it wraps either the
\* bound method obj.forward or the plain function behind it, installs the
\* result on the object and chooses the gradient mode it calls under.
HarnessWrap(kind, grad) ==
    /\ pc = "idle"
    /\ run = 0
    /\ cbs' = <<HessianCallback_init>>
    /\ pipe' = [get_inference_context |-> IF grad THEN "enable_grad" ELSE "no_grad",
                forward |-> MethodType(
                    add_callback(IF kind = "bound" THEN pipe.forward ELSE pipe.forward.func, 1),
                    "pipe")]
    /\ run' = 1
    /\ pc' = "wrapped"
    /\ UNCHANGED <<n, idx, result, error, trace>>

\* One call of the installed callable; the caller survives an exception
HarnessInvoke(item) ==
    /\ pc = "wrapped"
    /\ idx < MaxItems
    /\ LET r == CallMethod(pipe.forward, item, NoKwargs, World(idx + 1))
       IN /\ cbs' = r.cbs
          /\ trace' = r.trace
          /\ idx' = idx + 1
          /\ error' = r.exc
    /\ UNCHANGED <<pc, run, n, pipe, result>>

WrapNext ==
    \/ \E kind \in {"bound", "unbound"}, grad \in BOOLEAN : HarnessWrap(kind, grad)
    \/ \E item \in Items : HarnessInvoke(item)

WrapSpec == Init /\ [][WrapNext]_vars

(* ------------------------- reading the trace -------------------------- *)

Pos(op, who) == {i \in DOMAIN trace : trace[i].op = op /\ trace[i].who = who}

SameItem(i, j) == trace[i].run = trace[j].run /\ trace[i].item = trace[j].item

\* The contributions added into callback k's running sum, in order
Folded(k) == SelectSeq(trace, LAMBDA e : e.op = "folded" /\ e.who = k)

\* The tensor lists passed to callback k's add_sample, in order
Samples(k) == SelectSeq(trace, LAMBDA e : e.op = "add_sample" /\ e.who = k)

\* The forward passes of run r, in order
Forwards(r) == SelectSeq(trace, LAMBDA e : e.op = "forward" /\ e.run = r)

\* The curvature estimate of the item of forward event e, flattened
Estimate(e) == to_tensor(hess(e.data.out.logits).val).val

RECURSIVE SumAt(_, _)
SumAt(ts, i) == IF ts = <<>> THEN 0 ELSE Head(ts)[i] + SumAt(Tail(ts), i)

\* q is, element by element, the exact quotient (sum of ts) / Len(ts)
IsMean(q, ts) ==
    /\ DOMAIN q = DOMAIN zeros
    /\ \A i \in DOMAIN q :
          /\ q[i][2] > 0
          /\ q[i][1] * Len(ts) = q[i][2] * SumAt(ts, i)

RECURSIVE PermsOf(_)
PermsOf(S) ==
    IF S = {} THEN {<<>>}
    ELSE UNION {{<<x>> \o p : p \in PermsOf(S \ {x})} : x \in S}

\* The orderings of m folds; an accumulator is folded at most once per item
\* of its own run and once per later run
PermTable == [m \in 0..(MaxItems + MaxRuns) |-> PermsOf(1..m)]

FreshWorld ==
    [cbs |-> <<HessianCallback_init>>, trace |-> <<>>, grad |-> TRUE,
     obj |-> [id |-> 0], ret |-> 0, exc |-> "none", run |-> 0, item |-> 0]

RECURSIVE FoldAll(_, _)
FoldAll(samples, w) ==
    IF samples = <<>> THEN w.cbs[1]
    ELSE FoldAll(Tail(samples), add_sample(1, Head(samples), w))

(* ------------------------------- claims ------------------------------- *)

\* C1: after any non-empty sequence of valid tensor lists folded into a fresh
\* accumulator, get_hessian is the element-wise sum of the folded tensors
\* divided by their count, folding them in any other order gives the same
\* result, and a fisher_matrix call that returns on n >= 1 items returns the
\* mean of the n per-item curvature estimates.
MeanOfFolds ==
    /\ \A k \in DOMAIN cbs :
          LET S == Samples(k)
              F == Folded(k)
          IN (Len(S) >= 1 /\ Len(F) = Len(S)) =>
                /\ IsMean(get_hessian(cbs[k]), [j \in DOMAIN F |-> F[j].data])
                /\ \A p \in PermTable[Len(S)] :
                      get_hessian(FoldAll([j \in DOMAIN S |-> S[p[j]].data], FreshWorld))
                         = get_hessian(cbs[k])
    /\ (pc = "returned" /\ n >= 1) =>
          LET fw == Forwards(run)
          IN /\ Len(fw) = n
             /\ IsMean(result, [j \in DOMAIN fw |-> Estimate(fw[j])])

MeanOfFoldsWitness ==
    /\ pc = "returned"
    /\ n >= 2
    /\ Len(Folded(run)) = n
    /\ Folded(run)[1].data # Folded(run)[2].data
    /\ \E i \in DOMAIN result : result[i][2] > 1

\* C2: get_hessian on an accumulator with num_samples = 0 raises instead of
\* returning a value, so fisher_matrix never returns a matrix for an empty
\* dataset.
NoResultFromZeroSamples ==
    pc = "returned" => cbs[run].num_samples # 0

\* The calls wrapper call c makes of what it wraps
InnerOf(c) ==
    {j \in DOMAIN trace :
        /\ trace[j].run = c.run /\ trace[j].item = c.item
        /\ \/ c.who = 1 /\ trace[j].op = "forward"
           \/ c.who > 1 /\ trace[j].op = "call" /\ trace[j].who = c.who - 1}

\* C3: every call of a wrapper calls what it wraps exactly once with the same
\* receiver and arguments, and what it returns is the very outputs object the
\* original forward produced, its other fields unchanged, its logits the
\* same values but detached.
WrapperTransparent ==
    \A i \in DOMAIN trace :
       /\ trace[i].op = "call" =>
             /\ Cardinality(InnerOf(trace[i])) = 1
             /\ \A j \in InnerOf(trace[i]) :
                   /\ j > i
                   /\ trace[j].data.self = trace[i].data.self
                   /\ trace[j].data.args = trace[i].data.args
                   /\ trace[j].data.kwargs = trace[i].data.kwargs
       /\ trace[i].op = "return" =>
             \E j \in 1..(i - 1) :
                /\ trace[j].op = "forward" /\ SameItem(i, j)
                /\ trace[i].data.ret = trace[j].data.out.id
                /\ trace[i].data.out.id = trace[j].data.out.id
                /\ trace[i].data.out.other = trace[j].data.out.other
                /\ trace[i].data.out.logits.val = trace[j].data.out.logits.val
                /\ ~trace[i].data.out.logits.requires_grad

WrapperTransparentWitness ==
    \E i, j \in DOMAIN trace :
       /\ trace[i].op = "return" /\ trace[j].op = "forward" /\ SameItem(i, j)
       /\ trace[j].data.out.logits.requires_grad
       /\ trace[i].item >= 2

\* The completions of what wrapper k wraps, within calls of wrapper k
InnerDone(k) ==
    {d \in IF k = 1 THEN Pos("forward", 0) ELSE Pos("return", k - 1) :
        \E c \in Pos("call", k) : SameItem(c, d) /\ c < d}

DoneId(d) == IF trace[d].op = "forward" THEN trace[d].data.out.id ELSE trace[d].data.ret

\* C4: a wrapper called N times invokes its callback N times, once per call,
\* in call order, each time with the outputs of that call and after the
\* wrapped procedure of that call has completed.
CallbackOncePerCall ==
    \A k \in DOMAIN cbs :
       /\ Cardinality(Pos("callback", k)) = Cardinality(InnerDone(k))
       /\ k = 1 => Cardinality(Pos("callback", k)) = Cardinality(Pos("call", k))
       /\ \A c \in Pos("call", k) :
             Cardinality({j \in Pos("callback", k) : SameItem(j, c)}) <= 1
       /\ \A j \in Pos("callback", k) :
             /\ \E c \in Pos("call", k), d \in InnerDone(k) :
                   /\ SameItem(c, j) /\ SameItem(d, j)
                   /\ c < d /\ d < j
                   /\ trace[j].data.id = DoneId(d)
                   /\ \A c2 \in Pos("call", k) : ~(c < c2 /\ c2 < j)
       /\ \A j1, j2 \in Pos("callback", k) :
             j1 < j2 =>
                \E c1, c2 \in Pos("call", k) :
                   SameItem(c1, j1) /\ SameItem(c2, j2) /\ c1 < j1 /\ j1 < c2 /\ c2 < j2

CallbackOncePerCallWitness ==
    /\ run = 1
    /\ Cardinality(Pos("callback", 1)) >= 3

\* The last statement executed
LastRaise == trace[Len(trace)]

\* C5: when hess raises on item k, fisher_matrix raises that error and
\* returns nothing, no later item is forwarded, and the run's accumulator
\* holds exactly the k-1 folds of the items before it.
HessAbortKeepsEarlierFolds ==
    (/\ pc = "raised"
     /\ LastRaise.op = "raise" /\ LastRaise.data.in = "hess") =>
        LET fw == Forwards(run)
        IN /\ error = LastRaise.data.err
           /\ result = "none"
           /\ Len(fw) = idx
           /\ cbs[run].num_samples = idx - 1
           /\ \A i \in DOMAIN zeros :
                 cbs[run].hessian[i] =
                    SumAt([j \in 1..(idx - 1) |-> Estimate(fw[j])], i)

HessAbortWitness ==
    /\ pc = "raised"
    /\ error = "HessError"
    /\ n = 3
    /\ idx = 2
    /\ cbs[run].num_samples = 1

\* C6: num_samples is the number of add_sample calls made so far, 0 with a
\* zero running sum at construction, and the run's accumulator is folded once
\* per processed item, so a completed pass leaves num_samples = n.
CountsFolds ==
    /\ \A k \in DOMAIN cbs :
          /\ cbs[k].num_samples = Len(Samples(k))
          /\ Len(Samples(k)) = 0 => cbs[k].hessian = zeros
    /\ pc \in {"driving", "returned"} => cbs[run].num_samples = idx
    /\ pc = "returned" => cbs[run].num_samples = n

CountsFoldsWitness ==
    /\ pc = "returned"
    /\ n >= 2
    /\ cbs[run].num_samples = n

\* C7: the callable returned by add_callback calls the original procedure
\* and does not itself raise, whether the procedure wrapped is a bound or an
\* unbound reference.
WrapsBoundAndUnbound ==
    \A i \in DOMAIN trace :
       /\ trace[i].op = "call" =>
             \E j \in DOMAIN trace :
                /\ j > i /\ SameItem(i, j) /\ trace[j].op = "forward"
                /\ trace[j].data.self = trace[i].data.self
                /\ trace[j].data.args = trace[i].data.args
       /\ ~(trace[i].op = "raise" /\ trace[i].data.in = "new_func")

\* The steps of one item, as the trace names them
StepOrder == <<"forward", "hess", "add_sample", "detach", "return">>

StepsOf(r, it) ==
    SelectSeq(trace, LAMBDA e :
        e.run = r /\ e.item = it /\ e.op \in {StepOrder[s] : s \in DOMAIN StepOrder})

\* C8: within a run each item goes through forward, curvature estimation,
\* fold, detach, return in that order before the next item starts, the
\* estimator always sees logits not yet detached, and gradient tracking is
\* enabled when the first forward pass starts.
ItemStepsInOrder ==
    /\ \A i \in DOMAIN trace :
          /\ trace[i].op = "hess" => trace[i].data.requires_grad
          /\ trace[i].op = "forward" => trace[i].data.out.logits.requires_grad
          /\ \A j \in DOMAIN trace :
                (i < j /\ trace[i].run = trace[j].run) => trace[i].item <= trace[j].item
    /\ \A r \in 1..run, it \in 1..MaxItems :
          LET st == StepsOf(r, it)
          IN /\ Len(st) <= Len(StepOrder)
             /\ \A s \in DOMAIN st : st[s].op = StepOrder[s]

\* C9: during the k-th run on a pipeline each forward call invokes exactly
\* one callback, the k-th run's own; accumulators of earlier runs are not
\* touched and no earlier callback has detached the logits the estimator gets.
OnlyOwnCallback ==
    \A i \in DOMAIN trace :
       /\ trace[i].op \in {"callback", "add_sample", "detach"} => trace[i].who = trace[i].run
       /\ trace[i].op = "hess" => trace[i].data.requires_grad

\* C10: add_sample is all-or-nothing, so the running sum is always the sum
\* of exactly num_samples folded contributions.
FoldAllOrNothing ==
    \A k \in DOMAIN cbs :
       /\ cbs[k].num_samples = Len(Folded(k))
       /\ \A i \in DOMAIN zeros :
             cbs[k].hessian[i] = SumAt([j \in DOMAIN Folded(k) |-> Folded(k)[j].data], i)

====
